---- MODULE Spec2Model ----
(***************************************************************************)
(* Archi-Logic: five near-duplicate single-page applications that upload a *)
(* style reference and a CAD line drawing and call a remote image model.   *)
(*                                                                         *)
(* The five variants of the repository are modelled side by side; the      *)
(* variable `variant` selects which App component is running:              *)
(*   "modal"    src/App.tsx lines 1-365       (key modal, host picker)      *)
(*   "fidelity" src/App.tsx lines 367-661     (no render modes, style DNA)  *)
(*   "dna"      src/unnamed/part_000 1-338    (render modes, style DNA)     *)
(*   "picker"   src/unnamed/part_000 340-727  (host picker, key_needed)     *)
(*   "input"    src/unnamed/part_001          (inline key input)            *)
(*                                                                         *)
(* Every handler is one action.  A handler that awaits is split at each    *)
(* await: the values it read before the await are carried in the pending   *)
(* record (the closure), the continuation is a separate action.            *)
(***************************************************************************)
EXTENDS Integers, Sequences, FiniteSets, TLC

(***************************************************************************)
(* Bounds of the model.                                                    *)
(***************************************************************************)
\* distinct image files the user can pick
MaxImg == 1
\* remote calls (main synthesis, style analysis) in flight at once
MaxInflight == 2
\* pending file reads and decodes, pending calls of the host object
MaxPending == 1
\* largest pixel width and height of the small images the classifiers are
\* applied to
MaxDim == 24

Variants == {"modal", "fidelity", "dna", "picker", "input"}
RenderModes == {"plan", "spatial", "enhance"}

NoImage == 0
Images == 1..MaxImg
\* a file that is no image: the browser reads it but can never decode it
CorruptFile == MaxImg + 1

(***************************************************************************)
(* Strings the code measures or searches are sequences of characters       *)
(* (keys) or of words (error messages).                                    *)
(***************************************************************************)
KeyEmpty == << >>
\* a key shorter than 10 characters, pasted with a leading blank
KeyShort == <<" ", "k">>
KeyLong == <<"k", "2", "3", "4", "5", "6", "7", "8", "9", "0">>
\* values the user can type or paste into a key field
TypedKeys == {KeyEmpty, KeyShort, KeyLong}
\* values of process.env.API_KEY (undefined is the empty string)
EnvKeys == {KeyEmpty, KeyLong}
\* localStorage: absent item
NoItem == <<"<absent>">>

MsgEntity == <<"Requested", "entity", "was", "not", "found">>
MsgNotFound == <<"model", "not", "found">>
MsgBilling == <<"billing", "not", "enabled">>
Msg403 == <<"403", "forbidden">>
MsgOther == <<"network", "error">>
\* err.message undefined
MsgNone == << >>
ErrorMessages == {MsgEntity, MsgNotFound, MsgBilling, Msg403, MsgOther, MsgNone}

\* JavaScript truthiness of a string
Truthy(s) == Len(s) > 0

\* JavaScript a || b on strings
OrElse(a, b) == IF Truthy(a) THEN a ELSE b

RECURSIVE TrimLeft(_)
TrimLeft(s) == IF Len(s) > 0 /\ Head(s) = " " THEN TrimLeft(Tail(s)) ELSE s

RECURSIVE TrimRight(_)
TrimRight(s) ==
  IF Len(s) > 0 /\ s[Len(s)] = " " THEN TrimRight(SubSeq(s, 1, Len(s) - 1)) ELSE s

\* String.prototype.trim
Trim(s) == TrimRight(TrimLeft(s))

\* err.message?.includes(pat): false when the message is undefined
Includes(msg, pat) ==
  \E i \in 1..Len(msg) :
    /\ i + Len(pat) - 1 <= Len(msg)
    /\ SubSeq(msg, i, i + Len(pat) - 1) = pat

\* localStorage.getItem(k) || ''
GetItemOrEmpty(item) == IF item = NoItem THEN KeyEmpty ELSE item

\* a sequence without its i-th element
RemoveAt(s, i) == SubSeq(s, 1, i - 1) \o SubSeq(s, i + 1, Len(s))

(***************************************************************************)
(* Pixel dimensions of the files the user can pick.                        *)
(***************************************************************************)
ImgWidth(i) == CASE i = 1 -> 1920 [] i = 2 -> 600 [] i = 3 -> 1150 [] OTHER -> 800
ImgHeight(i) == CASE i = 1 -> 1080 [] i = 2 -> 1000 [] i = 3 -> 1000 [] OTHER -> 800

\* calculateAspectRatio with the thresholds 1.1 and 0.9 of the other
\* classifier: a fault that the property of claim C12 must detect
calculateAspectRatioOtherThresholds(w, h) ==
  IF 10 * w > 15 * h THEN "16:9"
  ELSE IF 10 * w > 11 * h THEN "4:3"
  ELSE IF 10 * w < 6 * h THEN "9:16"
  ELSE IF 10 * w < 9 * h THEN "3:4"
  ELSE "1:1"

\* calculateAspectRatio without its last return: a fault that the property
\* of claim C13 must detect
calculateAspectRatioWithoutDefault(w, h) ==
  IF 10 * w > 15 * h THEN "16:9"
  ELSE IF 10 * w > 12 * h THEN "4:3"
  ELSE IF 10 * w < 6 * h THEN "9:16"
  ELSE IF 10 * w < 8 * h THEN "3:4"
  ELSE "undefined"

\* calculateAspectRatio with <= 0.6 for < 0.6: a fault that the property of
\* claim C14 must detect
calculateAspectRatioInclusive(w, h) ==
  IF 10 * w > 15 * h THEN "16:9"
  ELSE IF 10 * w > 12 * h THEN "4:3"
  ELSE IF 10 * w <= 6 * h THEN "9:16"
  ELSE IF 10 * w < 8 * h THEN "3:4"
  ELSE "1:1"

\* calculateAspectRatio: ratio = w / h compared as a real number
calculateAspectRatio(w, h) ==
  IF 10 * w > 15 * h THEN "16:9"
  ELSE IF 10 * w > 12 * h THEN "4:3"
  ELSE IF 10 * w < 6 * h THEN "9:16"
  ELSE IF 10 * w < 8 * h THEN "3:4"
  ELSE "1:1"

\* getImageAspectRatio with its first two tests after the other two, an
\* order of the branch tests that does change results: the fault that the
\* property of claim C28 must detect
getImageAspectRatioNarrowTestsFirst(w, h) ==
  IF 10 * w > 11 * h THEN "4:3"
  ELSE IF 10 * w < 9 * h THEN "3:4"
  ELSE IF 10 * w > 15 * h THEN "16:9"
  ELSE IF 10 * w < 6 * h THEN "9:16"
  ELSE "1:1"

\* the img.onload branch of getImageAspectRatio
getImageAspectRatio(w, h) ==
  IF 10 * w > 15 * h THEN "16:9"
  ELSE IF 10 * w < 6 * h THEN "9:16"
  ELSE IF 10 * w > 11 * h THEN "4:3"
  ELSE IF 10 * w < 9 * h THEN "3:4"
  ELSE "1:1"

VARIABLES
  variant,        \* which App component runs
  aistudio,       \* window.aistudio with its functions exists
  envKey,         \* process.env.API_KEY
  keySelected,    \* what window.aistudio.hasSelectedApiKey() resolves to
  renderMode, refImage, lineartImage, resultImage, status,
  aspectRatio,    \* aspectRatio / lineartAspectRatio
  dnaData,        \* style analysis text: the image it describes, 0 = ""
  manualKey,      \* manualKey / manualApiKey
  storedKey,      \* localStorage item ARCHI_LOG_KEY / ARCHI_LOGIC_KEY
  showKey,        \* showKeyModal / showKeyPanel / showKeyInput
  hasApiKey,
  uploads,        \* file reads and image decodes not yet finished
  keyChecks,      \* executeSynthesis calls awaiting hasSelectedApiKey()
  pickerWaits,    \* handlers awaiting openSelectKey()
  inflight,       \* main synthesis requests awaiting their response
  audits,         \* style analysis requests awaiting their response
  sliders,        \* blendWeight, fidelity, synthesisScale, enhanceParams
  ev              \* the handler that ran last and what it did

uiVars == <<renderMode, refImage, lineartImage, resultImage, status,
            aspectRatio, dnaData, manualKey, storedKey, showKey,
            hasApiKey>>
\* what no handler of the upload, key and synthesis flows writes: the host's
\* environment and the settings of the sliders
hostVars == <<variant, aistudio, envKey, keySelected, sliders>>
asyncVars == <<uploads, keyChecks, pickerWaits, inflight, audits>>
\* everything but the record of the last handler
progVars == <<uiVars, hostVars, asyncVars>>
vars == <<progVars, ev>>

\* room for one more remote call / one more pending local or host operation
RemoteRoom == Len(inflight) + Len(audits) < MaxInflight
PendingRoom == Len(uploads) + Len(keyChecks) + Len(pickerWaits) < MaxPending

HasModes == variant # "fidelity"
HasDna == variant \in {"fidelity", "dna"}
HasManualKey == variant # "picker"

\* the record of a handler run: its name, the image it handled (or NoImage)
\* and the branch it took
NoRequest ==
  [key |-> KeyEmpty, mode |-> "plan", geo |-> NoImage, ref |-> NoImage,
   ratio |-> "1:1", dna |-> 0, params |-> {}]

\* a handler run that sent the remote call `call` built from `req`
Dispatch(op, img, out, call, req) ==
  [op |-> op, img |-> img, out |-> out, call |-> call, req |-> req, msg |-> MsgNone]

\* a run of the catch block for an error with message msg
Caught(img, msg) ==
  [op |-> "synthesisFails", img |-> img, out |-> "error", call |-> "none",
   req |-> NoRequest, msg |-> msg]

\* a handler run that sent nothing
Event(op, img, out) == Dispatch(op, img, out, "none", NoRequest)

\* the host's key picker dialog is open: an openSelectKey() call is pending
pickerOpened == Len(pickerWaits) > 0

\* the number fields of the component's state and their useState values
InitialSliders ==
  CASE variant = "fidelity" -> [fidelity |-> 80]
    [] variant = "dna" -> [synthesisScale |-> 100]
    [] OTHER -> [blendWeight |-> 100, texture |-> 99, smoothing |-> 10,
                 detail |-> 90, light |-> 70]

Init ==
  /\ variant \in Variants
  /\ sliders = InitialSliders
  /\ envKey \in EnvKeys
  \* the host object is called without a test by the picker variant, tested
  \* for by the modal variant and not used for requests by the others
  /\ aistudio \in BOOLEAN
  /\ (variant = "picker" => aistudio)
  /\ (variant \in {"fidelity", "dna", "input"} => ~aistudio)
  \* the answer of the host is read by the picker variant only
  /\ keySelected \in BOOLEAN
  /\ (variant # "picker" => ~keySelected)
  /\ renderMode = CASE variant = "dna" -> "plan"
                    [] variant = "fidelity" -> "plan"
                    [] OTHER -> "spatial"
  /\ refImage = NoImage
  /\ lineartImage = NoImage
  /\ resultImage = NoImage
  /\ status = "idle"
  /\ aspectRatio = "1:1"
  /\ dnaData = 0
  /\ storedKey \in IF variant = "picker" THEN {NoItem} ELSE {NoItem, KeyLong}
  /\ manualKey = GetItemOrEmpty(storedKey)
  \* useEffect on mount of the variants with a key panel
  /\ showKey = (HasDna /\ ~Truthy(OrElse(manualKey, envKey)))
  \* useEffect on mount of the picker variant: checkKey
  /\ hasApiKey = (variant = "picker" /\ keySelected)
  /\ uploads = << >>
  /\ keyChecks = << >>
  /\ pickerWaits = << >>
  /\ inflight = << >>
  /\ audits = << >>
  /\ ev = Dispatch("mount", NoImage, "", "none", NoRequest)

(***************************************************************************)
(* handleModeSwitch                                                        *)
(***************************************************************************)
handleModeSwitch(mode) ==
  /\ HasModes
  /\ renderMode' = mode
  /\ resultImage' = NoImage
  /\ status' = "idle"
  /\ IF variant = "dna"
       THEN /\ refImage' = NoImage
            /\ lineartImage' = NoImage
            /\ dnaData' = 0
       ELSE UNCHANGED <<refImage, lineartImage, dnaData>>
  /\ ev' = Event("handleModeSwitch", NoImage, mode)
  /\ UNCHANGED <<aspectRatio, manualKey, storedKey, showKey, hasApiKey>>
  /\ UNCHANGED <<hostVars, asyncVars>>

(***************************************************************************)
(* Uploads.  handleUpload / handleFileUpload start a FileReader; the       *)
(* reader's onload and the image decodes it starts run later.  A pending   *)
(* record carries what the closure of the handler captured: the render     *)
(* mode and the manual key of the render in which the file was picked.     *)
(***************************************************************************)
Upload(stage, type, img, mode, key) ==
  [stage |-> stage, type |-> type, img |-> img, mode |-> mode, key |-> key]

\* the <input type="file"> of the role is rendered
UploadInputShown(type) ==
  CASE variant = "fidelity" -> TRUE
    [] variant = "dna" -> (type = "ref" \/ renderMode # "enhance")
    [] OTHER -> (type = "lineart" \/ renderMode # "enhance")

\* the render mode the decode of a reference reads (dna variant, line 74);
\* no other continuation of an upload reads the mode
ClosureMode(type) == IF variant = "dna" /\ type = "ref" THEN renderMode ELSE "plan"

\* getActiveKey() as auditNeuralDNA will evaluate it in the closure of this
\* upload; no other continuation of an upload reads a key
ClosureKey(type) ==
  IF HasDna /\ type = "ref" THEN OrElse(OrElse(manualKey, envKey), KeyEmpty) ELSE KeyEmpty

\* handleUpload / handleFileUpload up to reader.readAsDataURL(file)
handleUpload(type, img) ==
  /\ UploadInputShown(type)
  /\ PendingRoom
  /\ uploads' = Append(uploads, Upload("read", type, img,
                                      ClosureMode(type), ClosureKey(type)))
  /\ ev' = Event("handleUpload", img, type)
  /\ UNCHANGED <<uiVars, hostVars, keyChecks, pickerWaits, inflight, audits>>

\* auditNeuralDNA goes past `if (!key) return`
AuditStarts(u) == Truthy(u.key)

\* reader.onload, up to the first await of each branch
readerOnload(i) ==
  LET u == uploads[i]
      rest == RemoveAt(uploads, i)
  IN
  /\ u.stage = "read"
  /\ IF u.type = "ref"
       THEN /\ refImage' = u.img
            /\ UNCHANGED <<lineartImage>>
            /\ IF HasDna
                 THEN \* setRefImage(data); [decode for the ratio;] await auditNeuralDNA(data)
                      /\ (AuditStarts(u) => RemoteRoom)
                      /\ uploads' = IF variant = "dna"
                                      THEN Append(rest, [u EXCEPT !.stage = "decode"])
                                      ELSE rest
                      /\ IF AuditStarts(u)
                           THEN /\ status' = "analyzing"
                                /\ audits' = Append(audits, [img |-> u.img])
                           ELSE UNCHANGED <<status, audits>>
                      /\ UNCHANGED resultImage
                 ELSE \* setRefImage(data); setResultImage(null)
                      /\ resultImage' = NoImage
                      /\ uploads' = rest
                      /\ UNCHANGED <<status, audits>>
       ELSE /\ UNCHANGED <<refImage, status, audits, resultImage>>
            /\ IF HasDna
                 THEN \* nothing is set before processLineart / the decode finishes
                      /\ UNCHANGED lineartImage
                      /\ uploads' = Append(rest, [u EXCEPT !.stage =
                                       IF variant = "dna" THEN "flatten" ELSE "decode"])
                 ELSE \* setLineartImage(data); await getImageAspectRatio(data)
                      /\ lineartImage' = u.img
                      /\ uploads' = Append(rest, [u EXCEPT !.stage = "decode"])
  /\ ev' = IF HasDna /\ u.type = "ref" /\ AuditStarts(u)
             THEN Dispatch("readerOnload", u.img, u.type, "audit",
                           [NoRequest EXCEPT !.key = u.key, !.ref = u.img])
             ELSE Event("readerOnload", u.img, u.type)
  /\ UNCHANGED <<renderMode, aspectRatio, dnaData, manualKey, storedKey,
                 showKey, hasApiKey>>
  /\ UNCHANGED <<hostVars, keyChecks, pickerWaits, inflight>>

\* processLineart resolves: the image is flattened onto white, then decoded again
processLineart(i) ==
  LET u == uploads[i] IN
  /\ u.stage = "flatten"
  /\ u.img # CorruptFile
  /\ uploads' = Append(RemoveAt(uploads, i), [u EXCEPT !.stage = "decode"])
  /\ ev' = Event("processLineart", u.img, u.type)
  /\ UNCHANGED <<uiVars, hostVars, keyChecks, pickerWaits, inflight, audits>>

\* img.onload of the decode an upload started
imageOnload(i) ==
  LET u == uploads[i]
      w == ImgWidth(u.img)
      h == ImgHeight(u.img)
  IN
  /\ u.stage = "decode"
  /\ u.img # CorruptFile
  /\ uploads' = RemoveAt(uploads, i)
  /\ IF HasDna
       THEN IF u.type = "ref"
              THEN \* dna variant only: the ratio follows the reference in enhance mode
                   /\ aspectRatio' = IF u.mode = "enhance"
                                       THEN calculateAspectRatio(w, h) ELSE aspectRatio
                   /\ UNCHANGED <<lineartImage, resultImage>>
              ELSE /\ aspectRatio' = calculateAspectRatio(w, h)
                   /\ lineartImage' = u.img
                   /\ resultImage' = NoImage
       ELSE \* setLineartAspectRatio(ratio); setResultImage(null)
            /\ aspectRatio' = getImageAspectRatio(w, h)
            /\ resultImage' = NoImage
            /\ UNCHANGED lineartImage
  /\ ev' = Event("imageOnload", u.img, u.type)
  /\ UNCHANGED <<renderMode, refImage, status, dnaData, manualKey,
                 storedKey, showKey, hasApiKey>>
  /\ UNCHANGED <<hostVars, keyChecks, pickerWaits, inflight, audits>>

\* the file turns out not to be an image the browser can decode: img.onload
\* never fires and no onerror is set, so the upload ends here
imageNeverLoads(i) ==
  LET u == uploads[i] IN
  /\ u.stage \in {"flatten", "decode"}
  /\ uploads' = RemoveAt(uploads, i)
  /\ ev' = Event("imageNeverLoads", u.img, u.type)
  /\ UNCHANGED <<uiVars, hostVars, keyChecks, pickerWaits, inflight, audits>>

(***************************************************************************)
(* executeSynthesis                                                        *)
(***************************************************************************)
isEnhance == renderMode = "enhance"

\* the disabled attribute of the button whose onClick is executeSynthesis
RenderButtonDisabled ==
  CASE variant \in {"modal", "input"} -> status = "rendering"
    [] variant = "fidelity" ->
         status # "idle" \/ lineartImage = NoImage \/ refImage = NoImage
    [] variant = "dna" ->
         status # "idle" \/ refImage = NoImage
           \/ (renderMode # "enhance" /\ lineartImage = NoImage)
    [] OTHER ->
         status = "rendering" \/ lineartImage = NoImage
           \/ (~isEnhance /\ refImage = NoImage)

\* getActiveKey() / finalKey: the credential a request made now would carry
getActiveKey ==
  CASE variant \in {"modal", "input"} ->
         OrElse(OrElse(Trim(manualKey), envKey), KeyEmpty)
    [] variant \in {"fidelity", "dna"} -> OrElse(OrElse(manualKey, envKey), KeyEmpty)
    [] OTHER -> OrElse(envKey, KeyEmpty)

\* the key test of executeSynthesis that makes it return without a request
KeyMissing ==
  CASE variant \in {"modal", "input"} ->
         ~Truthy(getActiveKey) \/ Len(getActiveKey) < 10
    [] variant \in {"fidelity", "dna"} -> ~Truthy(getActiveKey)
    [] OTHER -> FALSE

\* the input tests of executeSynthesis as they would be if the picker, modal
\* and input variants did not test status: the fault that the property of
\* claim C2 must detect
InputGuardWithoutStatusTest ==
  CASE variant \in {"modal", "input", "picker"} ->
         /\ ~(lineartImage = NoImage)
         /\ ~(~isEnhance /\ refImage = NoImage)
    [] variant = "fidelity" -> ~(lineartImage = NoImage \/ refImage = NoImage)
    [] OTHER ->
         /\ ~(refImage = NoImage)
         /\ ~(renderMode # "enhance" /\ lineartImage = NoImage)

\* the input and status tests of executeSynthesis: TRUE when none returns
InputGuardPasses ==
  CASE variant \in {"modal", "input", "picker"} ->
         /\ ~(lineartImage = NoImage \/ status # "idle")
         /\ ~(~isEnhance /\ refImage = NoImage)
    [] variant = "fidelity" -> ~(lineartImage = NoImage \/ refImage = NoImage)
    [] OTHER ->
         /\ ~(refImage = NoImage)
         /\ ~(renderMode # "enhance" /\ lineartImage = NoImage)

\* the sliders whose values the template literals of the prompt interpolate
\* for a request in render mode `mode`
PromptSliders(mode) ==
  CASE variant \in {"modal", "input"} ->
         IF mode = "enhance" THEN {"texture", "detail", "light"} ELSE {"blendWeight"}
    [] variant = "picker" ->
         IF mode = "enhance" THEN {"texture", "light"} ELSE {"blendWeight"}
    [] variant = "fidelity" -> {"fidelity"}
    [] OTHER -> {"synthesisScale"}

\* the numbers in the text parts of the request: each interpolated slider
\* with the value it has in the render the handler runs in
PromptParams(mode) == {<<name, sliders[name]>> : name \in PromptSliders(mode)}

\* what the call to generateContent is built from
SynthesisRequest(key) ==
  [key |-> key, mode |-> renderMode, geo |-> lineartImage, ref |-> refImage,
   ratio |-> aspectRatio, dna |-> dnaData, params |-> PromptParams(renderMode)]

\* the parts array of the generateContent call, in the order it is built
\* for a request in render mode `mode`
RequestParts(mode) ==
  CASE variant \in {"modal", "input"} ->
         IF mode = "enhance" THEN <<"lineart", "text">>
         ELSE <<"lineart", "ref", "text">>
    [] variant = "picker" ->
         IF mode = "enhance" THEN <<"lineart", "text">>
         ELSE <<"lineart", "text", "ref", "text", "text">>
    [] variant = "fidelity" -> <<"ref", "lineart", "text">>
    [] OTHER ->
         IF mode = "enhance" THEN <<"ref", "text">>
         ELSE <<"ref", "lineart", "text">>

\* a part with inlineData
IsImagePart(part) == part # "text"

\* what the continuation of a pending generateContent call still reads of
\* the request: the input its result is the rendering of
InFlight(req) == [out |-> IF req.geo # NoImage THEN req.geo ELSE req.ref]

executeSynthesis ==
  /\ ~RenderButtonDisabled
  /\ CASE variant \in {"modal", "input"} ->
            IF KeyMissing
              THEN IF variant = "modal" /\ aistudio
                     THEN \* await win.aistudio.openSelectKey(); return
                          /\ PendingRoom
                          /\ pickerWaits' = Append(pickerWaits, "exec")
                          /\ ev' = Event("executeSynthesis", NoImage, "nokey")
                          /\ UNCHANGED <<uiVars, hostVars, uploads, keyChecks, inflight, audits>>
                     ELSE \* [setTempApiKey(manualApiKey);] setShowKeyModal(true)
                          /\ showKey' = TRUE
                          /\ ev' = Event("executeSynthesis", NoImage, "nokey")
                          /\ UNCHANGED <<renderMode, refImage, lineartImage, resultImage,
                                         status, aspectRatio, dnaData, manualKey,
                                         storedKey, hasApiKey>>
                          /\ UNCHANGED <<hostVars, asyncVars>>
              ELSE IF ~InputGuardPasses
                     THEN /\ ev' = Event("executeSynthesis", NoImage, "guard")
                          /\ UNCHANGED progVars
                     ELSE /\ RemoteRoom
                          /\ status' = "rendering"
                          /\ inflight' = Append(inflight, InFlight(SynthesisRequest(getActiveKey)))
                          /\ ev' = Dispatch("executeSynthesis", lineartImage, "dispatch",
                                            "synthesis", SynthesisRequest(getActiveKey))
                          /\ UNCHANGED <<renderMode, refImage, lineartImage, resultImage,
                                         aspectRatio, dnaData, manualKey, storedKey,
                                         showKey, hasApiKey>>
                          /\ UNCHANGED <<hostVars, uploads, keyChecks, pickerWaits, audits>>
       [] variant \in {"fidelity", "dna"} ->
            IF ~InputGuardPasses
              THEN /\ ev' = Event("executeSynthesis", NoImage, "guard")
                   /\ UNCHANGED progVars
              ELSE IF KeyMissing
                     THEN /\ ev' = Event("executeSynthesis", NoImage, "nokey")
                          /\ UNCHANGED progVars
                     ELSE /\ RemoteRoom
                          /\ status' = "rendering"
                          /\ inflight' = Append(inflight, InFlight(SynthesisRequest(getActiveKey)))
                          /\ ev' = Dispatch("executeSynthesis", lineartImage, "dispatch",
                                            "synthesis", SynthesisRequest(getActiveKey))
                          /\ UNCHANGED <<renderMode, refImage, lineartImage, resultImage,
                                         aspectRatio, dnaData, manualKey, storedKey,
                                         showKey, hasApiKey>>
                          /\ UNCHANGED <<hostVars, uploads, keyChecks, pickerWaits, audits>>
       [] OTHER ->
            IF ~InputGuardPasses
              THEN /\ ev' = Event("executeSynthesis", NoImage, "guard")
                   /\ UNCHANGED progVars
              ELSE \* await aistudio.hasSelectedApiKey(): the rest runs later with
                   \* the images, mode and ratio of this render
                   /\ PendingRoom
                   /\ keyChecks' = Append(keyChecks, SynthesisRequest(getActiveKey))
                   /\ ev' = Event("executeSynthesis", lineartImage, "await")
                   /\ UNCHANGED <<uiVars, hostVars, uploads, pickerWaits, inflight, audits>>

\* the continuation of executeSynthesis as it would be if it cleared the old
\* result when it sends the request: the fault that the property of claim
\* C11 must detect
hasSelectedApiKeyResolvesClearingResult(i) ==
  LET c == keyChecks[i] IN
  /\ keyChecks' = RemoveAt(keyChecks, i)
  /\ IF ~keySelected
       THEN /\ status' = "key_needed"
            /\ ev' = Event("hasSelectedApiKeyResolves", c.geo, "nokey")
            /\ UNCHANGED <<inflight, resultImage>>
       ELSE /\ RemoteRoom
            /\ status' = "rendering"
            /\ resultImage' = NoImage
            /\ inflight' = Append(inflight, InFlight(c))
            /\ ev' = Dispatch("hasSelectedApiKeyResolves", c.geo, "dispatch", "synthesis", c)
  /\ UNCHANGED <<renderMode, refImage, lineartImage, aspectRatio, dnaData,
                 manualKey, storedKey, showKey, hasApiKey>>
  /\ UNCHANGED <<hostVars, uploads, pickerWaits, audits>>

\* picker variant: hasSelectedApiKey() resolves and executeSynthesis goes on
hasSelectedApiKeyResolves(i) ==
  LET c == keyChecks[i] IN
  /\ keyChecks' = RemoveAt(keyChecks, i)
  /\ IF ~keySelected
       THEN /\ status' = "key_needed"
            /\ ev' = Event("hasSelectedApiKeyResolves", c.geo, "nokey")
            /\ UNCHANGED inflight
       ELSE /\ RemoteRoom
            /\ status' = "rendering"
            /\ inflight' = Append(inflight, InFlight(c))
            /\ ev' = Dispatch("hasSelectedApiKeyResolves", c.geo, "dispatch", "synthesis", c)
  /\ UNCHANGED <<renderMode, refImage, lineartImage, resultImage, aspectRatio, dnaData,
                 manualKey, storedKey, showKey, hasApiKey>>
  /\ UNCHANGED <<hostVars, uploads, pickerWaits, audits>>

(***************************************************************************)
(* The response of the main synthesis call: the rest of the try block,     *)
(* the catch block and the finally block of executeSynthesis.              *)
(***************************************************************************)
\* a message for the response without image that the catch block would take
\* for a credential error: the fault that the property of claim C30 must
\* detect
MsgImageNotFound == <<"image", "data", "not", "found">>

\* message of the Error the input variant throws on a response without image
MsgNoImageData == <<"Model", "returned", "no", "image", "data.">>

\* the test of the catch block that decides for the credential flow
IsCredentialError(msg) ==
  CASE variant = "modal" ->
         Includes(msg, MsgEntity) \/ Includes(msg, <<"billing">>) \/ Includes(msg, <<"403">>)
    [] variant \in {"fidelity", "dna"} -> Includes(msg, <<"not", "found">>)
    [] variant = "picker" -> Includes(msg, MsgEntity)
    [] OTHER ->
         Includes(msg, <<"billing">>) \/ Includes(msg, <<"not", "found">>)
           \/ Includes(msg, <<"403">>)

\* the data URL built from the image part of the response: the rendering of
\* the request's geometry input (of its reference in the dna variant's
\* enhance mode, which sends no other image)
ResultOf(req) == req.out

\* the catch block followed by finally, for an error with message msg
CatchAndFinally(req, msg) ==
  IF IsCredentialError(msg)
    THEN CASE variant = "modal" /\ aistudio ->
                \* await win.aistudio.openSelectKey() suspends before finally
                /\ PendingRoom
                /\ pickerWaits' = Append(pickerWaits, "catch")
                /\ ev' = Caught(req.out, msg)
                /\ UNCHANGED <<status, showKey, hasApiKey>>
           [] variant = "picker" ->
                \* setHasApiKey(false); setStatus('key_needed'); then setStatus('idle')
                /\ hasApiKey' = FALSE
                /\ status' = "idle"
                /\ ev' = Caught(req.out, msg)
                /\ UNCHANGED <<showKey, pickerWaits>>
           [] OTHER ->
                /\ showKey' = TRUE
                /\ status' = "idle"
                /\ ev' = Caught(req.out, msg)
                /\ UNCHANGED <<hasApiKey, pickerWaits>>
    ELSE /\ status' = "idle"
         /\ ev' = Caught(req.out, msg)
         /\ UNCHANGED <<showKey, hasApiKey, pickerWaits>>

\* generateContent resolves with an image part
synthesisSucceeds(i) ==
  LET req == inflight[i] IN
  /\ inflight' = RemoveAt(inflight, i)
  /\ resultImage' = ResultOf(req)
  /\ status' = "idle"
  /\ ev' = Event("synthesisSucceeds", req.out, "image")
  /\ UNCHANGED <<renderMode, refImage, lineartImage, aspectRatio, dnaData, manualKey,
                 storedKey, showKey, hasApiKey>>
  /\ UNCHANGED <<hostVars, uploads, keyChecks, pickerWaits, audits>>

\* generateContent resolves without an image part
synthesisReturnsNoImage(i) ==
  LET req == inflight[i] IN
  /\ inflight' = RemoveAt(inflight, i)
  /\ IF variant = "input"
       THEN CatchAndFinally(req, MsgNoImageData)
       ELSE /\ status' = "idle"
            /\ ev' = Event("synthesisReturnsNoImage", req.out, "silent")
            /\ UNCHANGED <<showKey, hasApiKey, pickerWaits>>
  /\ UNCHANGED <<renderMode, refImage, lineartImage, resultImage, aspectRatio, dnaData,
                 manualKey, storedKey>>
  /\ UNCHANGED <<hostVars, uploads, keyChecks, audits>>

\* generateContent rejects with an error whose message is msg
synthesisFails(i, msg) ==
  LET req == inflight[i] IN
  /\ inflight' = RemoveAt(inflight, i)
  /\ CatchAndFinally(req, msg)
  /\ UNCHANGED <<renderMode, refImage, lineartImage, resultImage, aspectRatio, dnaData,
                 manualKey, storedKey>>
  /\ UNCHANGED <<hostVars, uploads, keyChecks, audits>>

(***************************************************************************)
(* The response of the style analysis call (auditNeuralDNA after await).   *)
(***************************************************************************)
\* generateContent resolves; response.text may be empty
auditSucceeds(i, withText) ==
  LET a == audits[i] IN
  /\ audits' = RemoveAt(audits, i)
  /\ dnaData' = IF withText THEN a.img ELSE 0
  /\ status' = "idle"
  /\ ev' = Event("auditSucceeds", a.img, IF withText THEN "text" ELSE "empty")
  /\ UNCHANGED <<renderMode, refImage, lineartImage, resultImage, aspectRatio, manualKey,
                 storedKey, showKey, hasApiKey>>
  /\ UNCHANGED <<hostVars, uploads, keyChecks, pickerWaits, inflight>>

auditFails(i) ==
  LET a == audits[i] IN
  /\ audits' = RemoveAt(audits, i)
  /\ status' = "idle"
  /\ ev' = Event("auditFails", a.img, "error")
  /\ UNCHANGED <<renderMode, refImage, lineartImage, resultImage, aspectRatio, dnaData,
                 manualKey, storedKey, showKey, hasApiKey>>
  /\ UNCHANGED <<hostVars, uploads, keyChecks, pickerWaits, inflight>>

(***************************************************************************)
(* The host's key picker.                                                  *)
(***************************************************************************)
\* picker variant: handleOpenKeyPicker up to await openSelectKey()
handleOpenKeyPicker ==
  /\ variant = "picker"
  /\ PendingRoom
  /\ pickerWaits' = Append(pickerWaits, "open")
  /\ ev' = Event("handleOpenKeyPicker", NoImage, "await")
  /\ UNCHANGED <<uiVars, hostVars, uploads, keyChecks, inflight, audits>>

\* openSelectKey() resolves; the user has picked a key or has not
openSelectKeyResolves(i, picked) ==
  LET kind == pickerWaits[i] IN
  /\ pickerWaits' = RemoveAt(pickerWaits, i)
  /\ keySelected' = (keySelected \/ (picked /\ variant = "picker"))
  /\ CASE kind = "open" ->
            \* setHasApiKey(true); setStatus('idle')
            /\ hasApiKey' = TRUE
            /\ status' = "idle"
       [] kind = "catch" ->
            \* finally { setStatus('idle') }
            /\ status' = "idle"
            /\ UNCHANGED hasApiKey
       [] OTHER ->
            \* executeSynthesis returns
            UNCHANGED <<status, hasApiKey>>
  /\ ev' = Event("openSelectKeyResolves", NoImage, kind)
  /\ UNCHANGED <<renderMode, refImage, lineartImage, resultImage, aspectRatio, dnaData,
                 manualKey, storedKey, showKey>>
  /\ UNCHANGED <<variant, aistudio, envKey, sliders, uploads, keyChecks, inflight, audits>>

(***************************************************************************)
(* Key entry.                                                              *)
(***************************************************************************)
\* useEffect([manualKey]) of the variants with a key panel, after a handler
\* that leaves the manual key at k and asks for the panel to be shown or not
KeyPanelAfter(k, shown) ==
  IF HasDna /\ k # manualKey /\ ~Truthy(OrElse(k, envKey)) THEN TRUE ELSE shown

\* modal: the key button; fidelity, dna: handleEngineManagement;
\* input: the key button toggles the key input
openKeyEntry ==
  /\ HasManualKey
  /\ showKey' = IF variant = "input" THEN ~showKey ELSE TRUE
  /\ ev' = Event("openKeyEntry", NoImage, "")
  /\ UNCHANGED <<renderMode, refImage, lineartImage, resultImage, status, aspectRatio,
                 dnaData, manualKey, storedKey, hasApiKey>>
  /\ UNCHANGED <<hostVars, asyncVars>>

\* the close button of the key modal (modal) and of the key panel (fidelity)
closeKeyEntry ==
  /\ variant \in {"modal", "fidelity"}
  /\ showKey
  /\ showKey' = FALSE
  /\ ev' = Event("closeKeyEntry", NoImage, "")
  /\ UNCHANGED <<renderMode, refImage, lineartImage, resultImage, status, aspectRatio,
                 dnaData, manualKey, storedKey, hasApiKey>>
  /\ UNCHANGED <<hostVars, asyncVars>>

\* onChange of the key field bound to the manual key: setManualKey(value)
\* (fidelity, dna), saveManualKey(value) (input)
typeKey(val) ==
  /\ variant \in {"fidelity", "dna", "input"}
  /\ showKey
  /\ IF variant = "input"
       THEN /\ manualKey' = Trim(val)
            /\ storedKey' = Trim(val)
            /\ UNCHANGED showKey
       ELSE /\ manualKey' = val
            /\ showKey' = KeyPanelAfter(val, showKey)
            /\ UNCHANGED storedKey
  /\ ev' = Event("typeKey", NoImage, "")
  /\ UNCHANGED <<renderMode, refImage, lineartImage, resultImage, status, aspectRatio,
                 dnaData, hasApiKey>>
  /\ UNCHANGED <<hostVars, asyncVars>>

\* confirmSaveKey (modal) with val the text of the key field, which only the
\* modal reads (tempApiKey); saveManualKey(manualKey) (fidelity, dna)
saveManualKey(val) ==
  /\ variant \in {"modal", "fidelity", "dna"}
  /\ showKey
  /\ (variant # "modal" => val = manualKey)
  /\ LET trimmed == Trim(val) IN
       /\ manualKey' = trimmed
       /\ storedKey' = trimmed
       /\ showKey' = KeyPanelAfter(trimmed, FALSE)
  /\ ev' = Event("saveManualKey", NoImage, "")
  /\ UNCHANGED <<renderMode, refImage, lineartImage, resultImage, status, aspectRatio,
                 dnaData, hasApiKey>>
  /\ UNCHANGED <<hostVars, asyncVars>>

\* clearManualKey (modal), saveManualKey('') (input)
clearManualKey ==
  /\ variant \in {"modal", "input"}
  /\ showKey
  /\ manualKey' = KeyEmpty
  /\ IF variant = "modal"
       THEN /\ storedKey' = NoItem
            /\ showKey' = FALSE
       ELSE /\ storedKey' = KeyEmpty
            /\ UNCHANGED showKey
  /\ ev' = Event("clearManualKey", NoImage, "")
  /\ UNCHANGED <<renderMode, refImage, lineartImage, resultImage, status, aspectRatio,
                 dnaData, hasApiKey>>
  /\ UNCHANGED <<hostVars, asyncVars>>

\* fidelity, dna: the reset button shown over a result, setResultImage(null)
resetResult ==
  /\ HasDna
  /\ resultImage # NoImage
  /\ status = "idle"
  /\ resultImage' = NoImage
  /\ ev' = Event("resetResult", NoImage, "")
  /\ UNCHANGED <<renderMode, refImage, lineartImage, status, aspectRatio, dnaData,
                 manualKey, storedKey, showKey, hasApiKey>>
  /\ UNCHANGED <<hostVars, asyncVars>>

Next ==
  \/ \E mode \in RenderModes : handleModeSwitch(mode)
  \/ \E type \in {"ref", "lineart"}, img \in Images : handleUpload(type, img)
  \/ \E i \in 1..Len(uploads) : readerOnload(i)
  \/ \E i \in 1..Len(uploads) : processLineart(i)
  \/ \E i \in 1..Len(uploads) : imageOnload(i)
  \/ \E i \in 1..Len(uploads) : imageNeverLoads(i)
  \/ executeSynthesis
  \/ \E i \in 1..Len(keyChecks) : hasSelectedApiKeyResolves(i)
  \/ \E i \in 1..Len(inflight) : synthesisSucceeds(i)
  \/ \E i \in 1..Len(inflight) : synthesisReturnsNoImage(i)
  \/ \E i \in 1..Len(inflight), msg \in ErrorMessages : synthesisFails(i, msg)
  \/ \E i \in 1..Len(audits), withText \in BOOLEAN : auditSucceeds(i, withText)
  \/ \E i \in 1..Len(audits) : auditFails(i)
  \/ handleOpenKeyPicker
  \/ \E i \in 1..Len(pickerWaits), picked \in BOOLEAN : openSelectKeyResolves(i, picked)
  \/ openKeyEntry
  \/ closeKeyEntry
  \/ \E val \in TypedKeys : typeKey(val)
  \/ \E val \in TypedKeys \cup {manualKey} : saveManualKey(val)
  \/ clearManualKey
  \/ resetResult

Spec == Init /\ [][Next]_vars

(***************************************************************************)
(* Uploads of files that cannot be decoded.  The component runs with an    *)
(* environment key (and, in the picker variant, a key selected in the      *)
(* host); the user switches modes, picks images for both roles and a       *)
(* corrupt file as line drawing, and renders.  The key entry is not used.  *)
(***************************************************************************)
DecodeInit ==
  /\ Init
  /\ envKey = KeyLong
  /\ storedKey = NoItem
  /\ ~aistudio \/ variant = "picker"
  /\ keySelected = (variant = "picker")

DecodeNext ==
  \/ \E mode \in RenderModes : handleModeSwitch(mode)
  \/ \E img \in Images : handleUpload("ref", img)
  \/ \E img \in Images \cup {CorruptFile} : handleUpload("lineart", img)
  \/ \E i \in 1..Len(uploads) : readerOnload(i)
  \/ \E i \in 1..Len(uploads) : processLineart(i)
  \/ \E i \in 1..Len(uploads) : imageOnload(i)
  \/ \E i \in 1..Len(uploads) : imageNeverLoads(i)
  \/ executeSynthesis
  \/ \E i \in 1..Len(keyChecks) : hasSelectedApiKeyResolves(i)
  \/ \E i \in 1..Len(inflight) : synthesisSucceeds(i)
  \/ \E i \in 1..Len(inflight) : synthesisReturnsNoImage(i)
  \/ \E i \in 1..Len(inflight) : synthesisFails(i, MsgOther)
  \/ \E i \in 1..Len(audits), withText \in BOOLEAN : auditSucceeds(i, withText)
  \/ \E i \in 1..Len(audits) : auditFails(i)

DecodeSpec == DecodeInit /\ [][DecodeNext]_vars

(***************************************************************************)
(* The sliders on their own.  Each is an <input type="range"> whose        *)
(* onChange stores parseInt(e.target.value).  Values of the element are    *)
(* counted in tenths, so that a request for a fraction can be made.        *)
(***************************************************************************)
\* values a set request asks the element for, in tenths: -1, 0.5, 50.4,
\* 100 and 200
RawRequests == {-10, 5, 504, 1000, 2000}

\* the range input without the clamp to min and max: the fault that the
\* property of claim C17 must detect
RangeInputValueUnclamped(raw, isNumber) ==
  IF ~isNumber THEN 500
  ELSE IF raw < 0 THEN -(((-raw) + 4) \div 10) * 10
  ELSE ((raw + 5) \div 10) * 10

\* the value of <input type="range" min="0" max="100"> (step 1) after a
\* request to set it to raw: what is no number becomes the default, the
\* middle of the range; a number is clamped to min and max and moved to the
\* nearest step
RangeInputValue(raw, isNumber) ==
  IF ~isNumber THEN 500
  ELSE LET clamped == IF raw < 0 THEN 0 ELSE IF raw > 1000 THEN 1000 ELSE raw
       IN  ((clamped + 5) \div 10) * 10

\* parseInt of the element's value: the digits before the decimal point
ParseInt(tenths) == IF tenths < 0 THEN -((-tenths) \div 10) ELSE tenths \div 10

\* the range inputs the variant renders in the current render mode
SlidersShown ==
  CASE variant = "fidelity" -> {"fidelity"}
    [] variant = "dna" -> {"synthesisScale"}
    [] variant = "picker" ->
         IF isEnhance THEN {"texture", "smoothing", "detail", "light"}
         ELSE {"blendWeight"}
    [] OTHER -> IF isEnhance THEN {"texture", "detail", "light"} ELSE {"blendWeight"}

\* onChange of a range input after a request to set it to raw
setSlider(name, raw, isNumber) ==
  LET v == ParseInt(RangeInputValue(raw, isNumber)) IN
  /\ name \in SlidersShown
  /\ sliders' = [sliders EXCEPT ![name] =
                   IF variant = "picker" /\ name = "smoothing" THEN 100 - v ELSE v]
  /\ ev' = [op |-> "setSlider", name |-> name, raw |-> raw, isNumber |-> isNumber]
  /\ UNCHANGED <<uiVars, asyncVars, variant, aistudio, envKey, keySelected>>

SliderNext ==
  \/ \E mode \in RenderModes : handleModeSwitch(mode)
  \/ \E name \in DOMAIN sliders, raw \in RawRequests, isNumber \in BOOLEAN :
       setSlider(name, raw, isNumber)

SliderSpec == Init /\ [][SliderNext]_vars

(***************************************************************************)
(* The aspect ratio classifiers on their own: a decoded image of any size  *)
(* is handed to calculateAspectRatio or to the onload branch of            *)
(* getImageAspectRatio, once and then again.  The record ev holds the      *)
(* size, the classifier called last, its tag, and the tag of the call of   *)
(* the same classifier before it.                                          *)
(***************************************************************************)
\* sizes the scenarios of the specification name
ScenarioSizes == {600, 800, 1000, 1080, 1920}
PixelSizes == (1..MaxDim) \cup ScenarioSizes

Decoded(w, h) ==
  [op |-> "decoded", width |-> w, height |-> h, tag |-> "", before |-> ""]

Classified(name, tag) ==
  [op |-> name, width |-> ev.width, height |-> ev.height, tag |-> tag,
   before |-> IF ev.op = name THEN ev.tag ELSE ""]

RatioInit ==
  /\ variant = "dna"
  /\ sliders = InitialSliders
  /\ aistudio = FALSE
  /\ envKey = KeyEmpty
  /\ keySelected = FALSE
  /\ renderMode = "plan"
  /\ refImage = NoImage
  /\ lineartImage = NoImage
  /\ resultImage = NoImage
  /\ status = "idle"
  /\ aspectRatio = "1:1"
  /\ dnaData = 0
  /\ storedKey = NoItem
  /\ manualKey = KeyEmpty
  /\ showKey = TRUE
  /\ hasApiKey = FALSE
  /\ uploads = << >>
  /\ keyChecks = << >>
  /\ pickerWaits = << >>
  /\ inflight = << >>
  /\ audits = << >>
  /\ ev \in {Decoded(w, h) : w \in PixelSizes, h \in PixelSizes}

callCalculateAspectRatio ==
  /\ ev.op \in {"decoded", "calculateAspectRatio"}
  /\ ev' = Classified("calculateAspectRatio", calculateAspectRatio(ev.width, ev.height))
  /\ UNCHANGED progVars

callGetImageAspectRatio ==
  /\ ev.op \in {"decoded", "getImageAspectRatio"}
  /\ ev' = Classified("getImageAspectRatio", getImageAspectRatio(ev.width, ev.height))
  /\ UNCHANGED progVars

RatioNext == callCalculateAspectRatio \/ callGetImageAspectRatio

RatioSpec == RatioInit /\ [][RatioNext]_vars

\* a remote call that is in flight returns: with a response or with an error
RemoteCallReturns ==
  \/ \E i \in 1..Len(inflight) : synthesisSucceeds(i)
  \/ \E i \in 1..Len(inflight) : synthesisReturnsNoImage(i)
  \/ \E i \in 1..Len(inflight), msg \in ErrorMessages : synthesisFails(i, msg)
  \/ \E i \in 1..Len(audits), withText \in BOOLEAN : auditSucceeds(i, withText)
  \/ \E i \in 1..Len(audits) : auditFails(i)

\* the only assumption on the environment: every remote call returns
FairSpec == Spec /\ WF_vars(RemoteCallReturns)

(***************************************************************************)
(* Properties.  The record ev names the handler whose run led to the       *)
(* current state, so "after handler h" is ev.op = h.                       *)
(***************************************************************************)

\* C1: under every interleaving of handlers at most one main synthesis
\* request (generateContent of executeSynthesis) is in flight at a time.
C1_AtMostOneRequestInFlight == Len(inflight) <= 1

\* C2: in every variant a run of executeSynthesis that starts while status
\* is not idle dispatches no request and changes no state variable.
C2_TriggerWhileBusyChangesNothing ==
  [][(ev'.op = "executeSynthesis" /\ status # "idle") => UNCHANGED progVars]_vars

\* C2, the case happens: executeSynthesis has run from a state whose status
\* was not idle (its guard branch leaves status as it was)
C2_TriggeredWhileBusy ==
  /\ ev.op = "executeSynthesis"
  /\ ev.out = "guard"
  /\ status # "idle"
  /\ lineartImage # NoImage

\* C3: in every variant with render modes, after handleModeSwitch the
\* reference, the line drawing and the result are null and status is idle.
C3_ModeSwitchClearsImages ==
  ev.op = "handleModeSwitch" =>
    /\ refImage = NoImage
    /\ lineartImage = NoImage
    /\ resultImage = NoImage
    /\ status = "idle"

\* C4: in every variant and mode a main synthesis request is dispatched only
\* from a state in which the line drawing is present and, unless the render
\* mode is enhance, the style reference is present too.  (The step that
\* dispatches changes neither image nor the mode.)
C4_DispatchNeedsInputs ==
  ev.call = "synthesis" =>
    /\ lineartImage # NoImage
    /\ (renderMode # "enhance" => refImage # NoImage)

\* C5: in every variant no request is dispatched to the remote API with an
\* empty credential.
C5_NoRequestWithEmptyKey == ev.call # "none" => Truthy(ev.req.key)

\* C6: a synthesis trigger that finds no usable credential always puts the
\* UI into a credential-required condition (key modal, panel or input
\* shown, host picker opened, or status key_needed): it never returns
\* silently.
C6_MissingKeyIsNeverSilent ==
  (ev.op \in {"executeSynthesis", "hasSelectedApiKeyResolves"} /\ ev.out = "nokey")
    => (showKey \/ pickerOpened \/ status = "key_needed")

\* C7: in every variant a failure of the main synthesis call whose message
\* contains "billing" leads to the credential flow (key modal, panel or
\* input shown, picker opened, or key_needed state) and leaves resultImage
\* as it was.
C7_BillingErrorOpensCredentialFlow ==
  [][(ev'.op = "synthesisFails" /\ Includes(ev'.msg, <<"billing">>))
       => /\ showKey' \/ pickerOpened' \/ status' = "key_needed"
          /\ resultImage' = resultImage]_vars

\* C8: after any failure of the main synthesis call status is idle and
\* resultImage, refImage and lineartImage have the values they had before.
C8_FailureRestoresIdle ==
  [][ev'.op = "synthesisFails"
       => /\ status' = "idle"
          /\ resultImage' = resultImage
          /\ refImage' = refImage
          /\ lineartImage' = lineartImage]_vars

\* C9: whenever status is rendering or analyzing it is eventually idle,
\* given only that remote calls return.
C9_BusyLeadsToIdle == (status \in {"rendering", "analyzing"}) ~> (status = "idle")

\* C10: in every variant, when the upload of an image of either role
\* completes, the held image of that role is the uploaded one and
\* resultImage is null.
C10_UploadReplacesAndClearsResult ==
  /\ (ev.op = "readerOnload" /\ ev.out = "ref")
       => (refImage = ev.img /\ resultImage = NoImage)
  /\ (ev.op = "imageOnload" /\ ev.out = "lineart")
       => (lineartImage = ev.img /\ resultImage = NoImage)

\* C11: dispatching a synthesis request does not change resultImage; it
\* changes only by an upload, a mode switch, a reset or a successful
\* response, and only a successful response with an image part stores an
\* image in it.
C11_ResultChangesOnlyOnSuccess ==
  [][/\ (ev'.call = "synthesis" => resultImage' = resultImage)
     /\ (resultImage' # resultImage =>
           ev'.op \in {"synthesisSucceeds", "handleModeSwitch", "readerOnload",
                       "imageOnload", "resetResult"})
     /\ ((resultImage' # resultImage /\ resultImage' # NoImage) =>
           ev'.op = "synthesisSucceeds")]_vars

\* C11, the case happens: a request has been dispatched while an earlier
\* result was displayed, and the result is still there
C11_DispatchedOverResult == ev.call = "synthesis" /\ resultImage # NoImage

\* C12: for all positive integer sizes calculateAspectRatio returns 16:9
\* when width/height > 1.5, otherwise 4:3 when > 1.2, otherwise 9:16 when
\* < 0.6, otherwise 3:4 when < 0.8, otherwise 1:1.
C12_CalculateAspectRatioIsCanonical ==
  ev.op = "calculateAspectRatio" =>
    LET w == ev.width
        h == ev.height
    IN  ev.tag = CASE 2 * w > 3 * h -> "16:9"
                   [] 2 * w <= 3 * h /\ 5 * w > 6 * h -> "4:3"
                   [] 5 * w <= 6 * h /\ 5 * w < 3 * h -> "9:16"
                   [] 5 * w <= 6 * h /\ 5 * w >= 3 * h /\ 5 * w < 4 * h -> "3:4"
                   [] OTHER -> "1:1"

\* C12, the case happens: 1920x1080 has been classified by
\* calculateAspectRatio as 16:9
C12_FullHdClassified ==
  /\ ev.op = "calculateAspectRatio"
  /\ ev.width = 1920
  /\ ev.height = 1080
  /\ ev.tag = "16:9"

C14_BoundaryIsNineSixteen ==
  (ev.op \in {"calculateAspectRatio", "getImageAspectRatio"}
     /\ ev.width = 600 /\ ev.height = 1000) => ev.tag = "9:16"

\* C14 amended: for width 600 and height 1000 (ratio exactly 0.6, which is
\* not strictly less than 0.6) both classifiers return 3:4.
C14_BoundaryIsThreeFour ==
  (ev.op \in {"calculateAspectRatio", "getImageAspectRatio"}
     /\ ev.width = 600 /\ ev.height = 1000) => ev.tag = "3:4"

\* C14, the case happens: calculateAspectRatio has classified 600x1000
C14_BoundaryClassified ==
  ev.op = "calculateAspectRatio" /\ ev.width = 600 /\ ev.height = 1000

\* C15: every dispatched request carries the manual key whenever a
\* non-empty manual key is held, and the environment key only when the
\* manual key is empty.
C15_ManualKeyHasPriority ==
  ev.call # "none" =>
    ev.req.key = IF HasManualKey /\ Truthy(manualKey) THEN manualKey ELSE envKey

\* C16: in every variant with an enhance mode, a synthesis trigger in
\* enhance mode without a style reference (refImage = null) is rejected: no
\* request is built from such a state.  (A request records the mode and the
\* reference of the state the trigger ran in.)
C16_EnhanceWithoutReferenceIsRejected ==
  ev.call = "synthesis" => ~(ev.req.mode = "enhance" /\ ev.req.ref = NoImage)

\* C17: every slider value is an integer in [0,100] in every reachable
\* state, also after a set request for a value outside that range or for
\* something that is no number.
C17_SlidersStayInRange == \A name \in DOMAIN sliders : sliders[name] \in 0..100

\* C17, the case happens: a set request for 200 has been handled and the
\* slider holds 100
C17_SetBeyondRange ==
  /\ ev.op = "setSlider"
  /\ ev.isNumber
  /\ ev.raw > 1000
  /\ sliders[ev.name] = 100

\* C18: in every dispatched main synthesis request that carries both a
\* line drawing and a style reference, the line drawing is the first image
\* part and the request does not start with a text part.
C18_LineartIsFirstImagePart ==
  ev.call = "synthesis" =>
    LET parts == RequestParts(ev.req.mode)
        images == SelectSeq(parts, IsImagePart)
    IN  (\E i, j \in 1..Len(parts) : parts[i] = "lineart" /\ parts[j] = "ref")
          => (images[1] = "lineart" /\ parts[1] # "text")

\* C19: if the decoding of an uploaded line drawing file fails,
\* lineartImage, the aspect ratio, refImage and resultImage keep their
\* prior values and no later synthesis request carries the undecodable
\* data.  (No image is held at mount, so undecodable data can become the
\* held line drawing only by an upload that did not leave the prior value.)
C19_FailedDecodeLeavesStateUntouched ==
  /\ (ev.op = "imageNeverLoads" /\ ev.img = CorruptFile) => lineartImage # CorruptFile
  /\ ev.call = "synthesis" => ev.req.geo # CorruptFile

\* C20: the response to a request that was in flight when a mode switch or
\* an upload cleared the result is never stored as the result.  (When the
\* handler that ran just before the response is that mode switch or upload,
\* the request the response answers was dispatched before it.)
C20_StaleResponseIsNotStored ==
  [][(/\ ev'.op = "synthesisSucceeds"
      /\ \/ ev.op = "handleModeSwitch"
         \/ ev.op = "imageOnload" /\ ev.out = "lineart"
         \/ ev.op = "readerOnload" /\ ev.out = "ref" /\ ~HasDna)
       => resultImage' = NoImage]_vars

\* C21: after a mode switch no image selected before the switch is held or
\* sent again, also when a file read, a flattening or a decode that started
\* before the switch completes after it.  (One handler run after the switch
\* no file picked after it can have been read yet, so every image held then,
\* and every image of a request dispatched by that run, was selected before
\* the switch.)
C21_NoImageSurvivesModeSwitch ==
  [][ev.op = "handleModeSwitch"
       => /\ refImage' = NoImage
          /\ lineartImage' = NoImage
          /\ (ev'.call = "synthesis" =>
                (ev'.req.geo = NoImage /\ ev'.req.ref = NoImage))]_vars

\* C22: every dispatched main synthesis request carries as aspectRatio the
\* tag the variant's classifier gives for the size of the geometry image of
\* that same request (the line drawing; the reference where the request
\* holds no line drawing), under every interleaving of uploads, mode
\* switches and triggers.
C22_RatioIsOfTheRequestsGeometry ==
  ev.call = "synthesis" =>
    LET g == IF ev.req.geo # NoImage THEN ev.req.geo ELSE ev.req.ref
        w == ImgWidth(g)
        h == ImgHeight(g)
    IN  ev.req.ratio = IF HasDna THEN calculateAspectRatio(w, h)
                       ELSE getImageAspectRatio(w, h)

\* C23: when the style analysis call for the reference now held has failed,
\* or was skipped because no key resolved, the analysis text that the next
\* main synthesis prompt will contain is empty: it is never text left from
\* the analysis of a reference uploaded earlier.
C23_FailedAnalysisLeavesNoText ==
  [][(\/ ev'.op = "auditFails" /\ ev'.img = refImage'
      \/ HasDna /\ ev'.op = "readerOnload" /\ ev'.out = "ref" /\ ev'.call = "none")
       => dnaData' = 0]_vars

\* C24: the style analysis call and the main synthesis call are strictly
\* sequential: no main synthesis request is dispatched while a style
\* analysis call is in flight, and status is never idle while either call
\* is in flight.  (The step that dispatches leaves the analysis calls in
\* flight as they were.)
C24_CallsAreSequential ==
  /\ ev.call = "synthesis" => Len(audits) = 0
  /\ (Len(inflight) > 0 \/ Len(audits) > 0) => status # "idle"

\* C25: when the main synthesis call fails with a message containing
\* "Requested entity was not found", the credential flow is visible in the
\* state the error handler leaves: the key modal, panel or input is shown
\* or the host picker has been opened, and in the picker variant, which
\* models the flow as a status, status is key_needed.
C25_EntityErrorShowsCredentialFlow ==
  [][(ev'.op = "synthesisFails" /\ Includes(ev'.msg, MsgEntity))
       => IF variant = "picker" THEN status' = "key_needed"
          ELSE showKey' \/ pickerOpened']_vars

\* C26: the text parts of every dispatched main synthesis request contain
\* the value held in state of every slider of the active mode's parameter
\* set: the blend or infusion weight in plan and spatial mode, and all four
\* of texture, smoothing, detail and light in enhance mode.  (The sliders a
\* variant does not hold are not asked for; the step that dispatches
\* changes no slider.)
C26_PromptHoldsEverySlider ==
  ev.call = "synthesis" =>
    LET paramSet == IF ev.req.mode = "enhance"
                      THEN {"texture", "smoothing", "detail", "light"}
                      ELSE {"blendWeight", "fidelity", "synthesisScale"}
    IN  \A name \in paramSet \cap DOMAIN sliders :
          <<name, sliders[name]>> \in ev.req.params

\* C27: in every reachable state the manual key held in memory, which the
\* requests use, equals the persisted one (an absent item counting as the
\* empty string), and the persisted one changes only on the explicit save
\* and clear actions.  (The two are equal at mount, so it is enough that no
\* step makes them differ.)
C27_ManualKeyEqualsStoredKey ==
  [][/\ manualKey' = GetItemOrEmpty(storedKey')
     /\ (storedKey' # storedKey => ev'.op \in {"saveManualKey", "clearManualKey"})]_vars

\* C28: calculateAspectRatio and getImageAspectRatio return the same tag
\* for every size whose ratio lies outside the bands (1.1, 1.2] and
\* [0.8, 0.9): the tag either of them has returned is the tag of the other.
C28_ClassifiersAgreeOutsideBands ==
  LET w == ev.width
      h == ev.height
      inUpperBand == 10 * w > 11 * h /\ 10 * w <= 12 * h
      inLowerBand == 10 * w >= 8 * h /\ 10 * w < 9 * h
  IN  /\ (ev.op = "calculateAspectRatio" /\ ~inUpperBand /\ ~inLowerBand)
           => ev.tag = getImageAspectRatio(w, h)
      /\ (ev.op = "getImageAspectRatio" /\ ~inUpperBand /\ ~inLowerBand)
           => ev.tag = calculateAspectRatio(w, h)

\* C28, the case happens: getImageAspectRatio, which tests < 0.6 before
\* > 1.1, has classified a size of ratio 1/2 as 9:16
C28_TallClassified ==
  /\ ev.op = "getImageAspectRatio"
  /\ ev.width = 1
  /\ ev.height = 2
  /\ ev.tag = "9:16"

\* C29: in the variants that require a key of at least 10 characters
\* (modal, input), whenever the environment key has 10 characters or more
\* and the inputs satisfy the preconditions, a run of executeSynthesis from
\* idle dispatches the request and does not take the credential-missing
\* branch, whatever the manual key holds.
C29_EnvironmentKeySuffices ==
  [][(/\ ev'.op = "executeSynthesis"
      /\ variant \in {"modal", "input"}
      /\ Len(envKey) >= 10
      /\ status = "idle"
      /\ lineartImage # NoImage
      /\ (isEnhance \/ refImage # NoImage))
       => (ev'.call = "synthesis" /\ ev'.out # "nokey")]_vars

\* C30: when the remote call succeeds but the response has no image part,
\* no variant stores a result: resultImage keeps its value and status
\* returns to idle; in the input variant, which throws on such a response,
\* the outcome is a generic failure: the key input is not opened by it.
C30_NoImageResponseStoresNothing ==
  [][(\/ ev'.op = "synthesisReturnsNoImage"
      \/ ev'.op = "synthesisFails" /\ ev'.msg = MsgNoImageData)
       => /\ resultImage' = resultImage
          /\ status' = "idle"
          /\ (variant = "input" => (ev'.out = "error" /\ showKey' = showKey))]_vars

\* C30, the case happens: in the input variant a response without image
\* part has arrived while an earlier result was displayed and the key input
\* was closed
C30_NoImageOverResult ==
  /\ variant = "input"
  /\ ev.op = "synthesisFails"
  /\ ev.msg = MsgNoImageData
  /\ resultImage # NoImage
  /\ ~showKey

====
